---------------------------- MODULE Spec2Model ----------------------------
(***************************************************************************)
(* Candidate-ORF preparation of RiboCop: interval merging (common.py),     *)
(* the transcript -> genome coordinate mapper, the codon scanner and the   *)
(* UTR partition of the driver (prepare_orfs.py).                          *)
(*                                                                         *)
(* Every function of the program is a pure, single-threaded computation,   *)
(* so each is an operator computed the way the code computes it, and each  *)
(* specification draws the inputs of one function in its initial states    *)
(* and applies the function in its actions.                                *)
(***************************************************************************)
EXTENDS Integers, Sequences, FiniteSets

VARIABLES
    pc,          \* position of the run: which call has been made
    m_in,        \* merge_intervals: the argument `intervals`
    m_out,       \* merge_intervals: the returned list
    m_out2,      \* merge_intervals applied to its own result
    t_ivs,       \* transcript_to_genome_iv: the argument `intervals`
    t_start,     \* transcript_to_genome_iv: the argument `start`
    t_end,       \* transcript_to_genome_iv: the argument `end`
    t_reverse,   \* transcript_to_genome_iv: the argument `reverse`
    t_res,       \* transcript_to_genome_iv: the outcome (fault or list)
    s_genome,    \* the sequence source: base of genomic position p at p + 1
    s_ivs,       \* search_orfs: the argument `intervals`
    s_res,       \* search_orfs: the outcome (fault or list of candidates)
    p_has_cds,   \* prepare_orfs: per gene of gtf.utr read so far, in order,
                 \* whether gtf.cds holds CDS records of the gene
    p_cds,       \* prepare_orfs: first_cds.start and last_cds.end of the gene
    p_track,     \* prepare_orfs: the UTR record read last, as it was read
    p_read,      \* prepare_orfs: the number of UTR records read so far
    utr5,        \* prepare_orfs: utr5, the groups in insertion order
    utr3,        \* prepare_orfs: utr3, the groups in insertion order
    p_log,       \* prepare_orfs: the conditions reported (printed) so far
    uorfs,       \* prepare_orfs: the list uorfs
    dorfs,       \* prepare_orfs: the list dorfs
    p_group,     \* prepare_orfs: tracks, the group the scan loop is at
    p_scanned    \* prepare_orfs: the number of groups the scan loop has done

mergeVars == <<m_in, m_out, m_out2>>

mapVars == <<t_ivs, t_start, t_end, t_reverse, t_res>>

searchVars == <<s_genome, s_ivs, s_res>>

prepVars == <<p_has_cds, p_cds, p_track, p_read, utr5, utr3, p_log, uorfs, dorfs>>

scanVars == <<p_group, p_scanned>>

vars == <<pc, mergeVars, mapVars, searchVars, prepVars, scanVars>>

(***************************************************************************)
(* Bounds of the model.                                                    *)
(***************************************************************************)
\* merge_intervals: genomic positions are 0..MergeMaxPos
MergeMaxPos == 3
\* merge_intervals: the input list has at most MergeMaxLen intervals
MergeMaxLen == 3
\* transcript_to_genome_iv: genomic positions are 0..MapMaxPos
MapMaxPos == 4
\* transcript_to_genome_iv: the interval list has at most MapMaxIvs intervals
MapMaxIvs == 3
\* search_orfs, spliced inputs: genomic positions are 0..SearchMaxPos
SearchMaxPos == 6
\* search_orfs, spliced inputs: at most SearchMaxIvs intervals
SearchMaxIvs == 2
\* search_orfs, single-exon inputs over the bases A, T: positions 0..LongMaxPos
LongMaxPos == 8
\* search_orfs, single-exon inputs over all four bases: positions 0..CodonMaxPos
CodonMaxPos == 5
\* prepare_orfs: genomic positions are 0..PrepMaxPos
PrepMaxPos == 6
\* prepare_orfs: gtf.utr holds at most PrepGenes genes
PrepGenes == 2
\* prepare_orfs: a gene has at most PrepMaxCds CDS records
PrepMaxCds == 2
\* prepare_orfs: at most PrepMaxUtr UTR records are read in a run
PrepMaxUtr == 1
\* scan loop: a group of utr5 holds at most ScanMaxTracks records
ScanMaxTracks == 2

(***************************************************************************)
(* Values.                                                                 *)
(***************************************************************************)
\* Python's None where a chromosome or strand was never given
NoneStr == "None"

Strands == {"+", "-"}

Max(a, b) == IF a >= b THEN a ELSE b

Min(a, b) == IF a <= b THEN a ELSE b

\* All sequences over S of length 0..n
SeqsUpTo(S, n) == UNION {[1..k -> S] : k \in 0..n}

(***************************************************************************)
(* Interval (RiboCop/interval.py is not among the sources; the record has  *)
(* the fields the callers read and write: chrom, start, end, strand).      *)
(***************************************************************************)
\* Interval(chrom, start, end, strand), as called in prepare_orfs.py
Interval(chrom, start, end, strand) ==
    [chrom |-> chrom, start |-> start, end |-> end, strand |-> strand]

\* Interval(start, end), as called by merge_intervals: no chromosome and no
\* strand are handed to the constructor
IntervalSE(start, end) ==
    [chrom |-> NoneStr, start |-> start, end |-> end, strand |-> NoneStr]

\* Span of one interval: i.end - i.start + 1
IvLen(i) == i.end - i.start + 1

(***************************************************************************)
(* Input domains of the specifications.                                    *)
(***************************************************************************)
\* Intervals with start <= end within 0..maxpos, on chromosome chr1, strand st
IntervalsOn(maxpos, st) ==
    UNION {{Interval("chr1", a, b, st) : b \in a..maxpos} : a \in 0..maxpos}

\* Genomic positions covered by a list of intervals
Covered(ivs) == UNION {ivs[k].start..ivs[k].end : k \in 1..Len(ivs)}

\* Lists as tracks_to_ivs hands them on: sorted, one after the other
SortedDisjointLists(maxpos, maxlen, st) ==
    {s \in SeqsUpTo(IntervalsOn(maxpos, st), maxlen) :
        \A k \in 1..Len(s) - 1 : s[k].end < s[k + 1].start}

(***************************************************************************)
(* merge_intervals (common.py)                                             *)
(***************************************************************************)
\* sorted(intervals, key=lambda i: i.start): stable insertion of x
RECURSIVE InsertByStart(_, _)
InsertByStart(x, s) ==
    IF s = <<>> THEN <<x>>
    ELSE IF s[Len(s)].start <= x.start THEN Append(s, x)
    ELSE Append(InsertByStart(x, SubSeq(s, 1, Len(s) - 1)), s[Len(s)])

RECURSIVE SortByStart(_)
SortByStart(s) ==
    IF s = <<>> THEN <<>>
    ELSE InsertByStart(s[Len(s)], SortByStart(SubSeq(s, 1, Len(s) - 1)))

\* to_merge = Interval(sorted_intervals[i].start, sorted_intervals[i].end)
NewMerge(iv) == IntervalSE(iv.start, iv.end)

\* Mutant of Absorbs: the next start is compared with the end of the
\* previous input interval instead of the running to_merge.end
AbsorbsPrevEnd(sorted_intervals, i, to_merge) ==
    /\ i + 1 <= Len(sorted_intervals)
    /\ sorted_intervals[i + 1].start <= sorted_intervals[i].end

\* Mutant of Absorbs: adjacent intervals are absorbed too
AbsorbsAdjacent(sorted_intervals, i, to_merge) ==
    /\ i + 1 <= Len(sorted_intervals)
    /\ sorted_intervals[i + 1].start <= to_merge.end + 1

\* Inner loop condition (i is the 1-based index of the current element):
\* i + 1 < len(sorted_intervals) and sorted_intervals[i + 1].start <= to_merge.end
Absorbs(sorted_intervals, i, to_merge) ==
    /\ i + 1 <= Len(sorted_intervals)
    /\ sorted_intervals[i + 1].start <= to_merge.end

\* Mutant of Extend: the end is overwritten, not maximised
ExtendNoMax(to_merge, nxt) == [to_merge EXCEPT !.end = nxt.end]

\* to_merge.end = max(to_merge.end, sorted_intervals[i + 1].end)
Extend(to_merge, nxt) == [to_merge EXCEPT !.end = Max(to_merge.end, nxt.end)]

\* The inner while loop: returns the index reached and the grown to_merge
RECURSIVE InnerLoop(_, _, _)
InnerLoop(sorted_intervals, i, to_merge) ==
    IF Absorbs(sorted_intervals, i, to_merge)
    THEN InnerLoop(sorted_intervals, i + 1,
                   Extend(to_merge, sorted_intervals[i + 1]))
    ELSE [i |-> i, to_merge |-> to_merge]

\* The outer while loop
RECURSIVE OuterLoop(_, _, _)
OuterLoop(sorted_intervals, i, merged_intervals) ==
    IF i <= Len(sorted_intervals)
    THEN LET r == InnerLoop(sorted_intervals, i, NewMerge(sorted_intervals[i]))
         IN  OuterLoop(sorted_intervals, r.i + 1,
                       Append(merged_intervals, r.to_merge))
    ELSE merged_intervals

merge_intervals(intervals) == OuterLoop(SortByStart(intervals), 1, <<>>)

(***************************************************************************)
(* transcript_to_genome_iv (prepare_orfs.py)                               *)
(***************************************************************************)
\* An int-or-None value: start_genome and end_genome start as None
NoneInt == [none |-> TRUE, v |-> 0]

SomeInt(x) == [none |-> FALSE, v |-> x]

\* total_len = sum(i.end - i.start + 1 for i in intervals)
RECURSIVE TotalLen(_)
TotalLen(intervals) ==
    IF intervals = <<>> THEN 0
    ELSE IvLen(intervals[1]) + TotalLen(Tail(intervals))

\* Mutant of Remap: the reverse flag is ignored
RemapForward(start, end, total_len, reverse) == [start |-> start, end |-> end]

\* if reverse: start, end = total_len - end - 1, total_len - start - 1
Remap(start, end, total_len, reverse) ==
    IF reverse
    THEN [start |-> total_len - end - 1, end |-> total_len - start - 1]
    ELSE [start |-> start, end |-> end]

\* Mutant of InInterval: the interval ending just before pos is taken
InIntervalOffByOne(cur, i_len, pos) == cur + i_len >= pos

\* if cur + i_len > start   (and the same test for end)
InInterval(cur, i_len, pos) == cur + i_len > pos

\* "find start in genome" / "find end in genome": the loop from interval k
\* on, with the running offset cur; None when no interval holds pos
RECURSIVE FindGenome(_, _, _, _)
FindGenome(pos, intervals, k, cur) ==
    IF k > Len(intervals) THEN NoneInt
    ELSE IF InInterval(cur, IvLen(intervals[k]), pos)
         THEN SomeInt(intervals[k].start + pos - cur)
         ELSE FindGenome(pos, intervals, k + 1, cur + IvLen(intervals[k]))

\* One pass of the overlap loop on interval i.  max(i.start, None) and
\* min(i.end, None) depend on the interpreter: Python 3 raises TypeError,
\* Python 2 (py2) orders None below every int, so that max gives i.start,
\* min gives None, and s <= None is false.
Overlap(i, start_genome, end_genome, py2) ==
    IF (start_genome.none \/ end_genome.none) /\ ~py2
    THEN [fault |-> TRUE, ivs |-> <<>>]
    ELSE LET s == IF start_genome.none THEN i.start
                  ELSE Max(i.start, start_genome.v)
         IN  IF end_genome.none THEN [fault |-> FALSE, ivs |-> <<>>]
             ELSE LET e == Min(i.end, end_genome.v)
                  IN  IF s <= e
                      THEN [fault |-> FALSE,
                            ivs |-> <<Interval(i.chrom, s, e, i.strand)>>]
                      ELSE [fault |-> FALSE, ivs |-> <<>>]

\* "find overlap with (start_genome, end_genome)": the loop from interval k on
RECURSIVE OverlapLoop(_, _, _, _, _, _)
OverlapLoop(intervals, k, start_genome, end_genome, py2, ivs) ==
    IF k > Len(intervals) THEN [fault |-> FALSE, ivs |-> ivs]
    ELSE LET o == Overlap(intervals[k], start_genome, end_genome, py2)
         IN  IF o.fault THEN [fault |-> TRUE, ivs |-> <<>>]
             ELSE OverlapLoop(intervals, k + 1, start_genome, end_genome,
                              py2, ivs \o o.ivs)

\* The whole function; the outcome is [fault, ivs]
transcript_to_genome_iv(start, end, intervals, reverse, py2) ==
    LET total_len == TotalLen(intervals)
        r == Remap(start, end, total_len, reverse)
        start_genome == FindGenome(r.start, intervals, 1, 0)
        end_genome == FindGenome(r.end, intervals, 1, 0)
    IN  OverlapLoop(intervals, 1, start_genome, end_genome, py2, <<>>)

(***************************************************************************)
(* The sequence source (RiboCop/fasta.py is not among the sources: the     *)
(* interface of section 6 of the specification).                           *)
(***************************************************************************)
Bases == {"A", "C", "G", "T"}

\* fasta.query(intervals): one string per interval, the bases of the
\* positions start..end, in list order
fasta_query(genome, intervals) ==
    [k \in 1..Len(intervals) |->
        SubSeq(genome, intervals[k].start + 1, intervals[k].end + 1)]

\* ''.join(sequences)
RECURSIVE Join(_)
Join(sequences) ==
    IF sequences = <<>> THEN <<>> ELSE sequences[1] \o Join(Tail(sequences))

Complement(b) ==
    CASE b = "A" -> "T" [] b = "T" -> "A" [] b = "C" -> "G" [] b = "G" -> "C"

\* fasta.reverse_complement(seq)
reverse_complement(seq) ==
    [k \in 1..Len(seq) |-> Complement(seq[Len(seq) + 1 - k])]

(***************************************************************************)
(* search_orfs (prepare_orfs.py)                                           *)
(***************************************************************************)
\* A list-or-None value: tracks_to_ivs returns None or a list
NoneList == [none |-> TRUE, ivs |-> <<>>]

SomeList(l) == [none |-> FALSE, ivs |-> l]

\* start_codons, in the order of the source text (ACG is written twice)
StartCodons ==
    << <<"A", "T", "G">>, <<"T", "T", "G">>, <<"C", "T", "G">>,
       <<"G", "T", "G">>, <<"A", "A", "G">>, <<"A", "G", "G">>,
       <<"A", "C", "G">>, <<"A", "T", "A">>, <<"A", "T", "T">>,
       <<"A", "T", "C">> >>

\* `for sc in start_codons` iterates a set, in an order the interpreter
\* chooses: the order of the source text and its reverse stand for the
\* orders (an order lists the indices of StartCodons)
CodonOrders ==
    {[k \in 1..Len(StartCodons) |-> k],
     [k \in 1..Len(StartCodons) |-> Len(StartCodons) + 1 - k]}

\* Mutant of StopCodons: TGA is missing
StopCodonsNoTGA == {<<"T", "A", "G">>, <<"T", "A", "A">>}

\* stop_codons
StopCodons == {<<"T", "A", "G">>, <<"T", "A", "A">>, <<"T", "G", "A">>}

\* seq[a:b] for 0 <= a
Slice(seq, a, b) == SubSeq(seq, a + 1, Min(b, Len(seq)))

\* merged_seq.find(sc, cur): the lowest index >= cur where sc occurs, or -1
RECURSIVE Find(_, _, _)
Find(seq, sc, cur) ==
    IF cur + 3 > Len(seq) THEN -1
    ELSE IF Slice(seq, cur, cur + 3) = sc THEN cur
    ELSE Find(seq, sc, cur + 1)

\* Mutant of FirstStop: the scan also reads the frame shifted by one
RECURSIVE FirstStopAnyFrame(_, _)
FirstStopAnyFrame(seq, i) ==
    IF i >= Len(seq) THEN -1
    ELSE IF Slice(seq, i, i + 3) \in StopCodons THEN i
    ELSE FirstStopAnyFrame(seq, i + 1)

\* for i in range(start, len(merged_seq), 3): the first i whose codon is a
\* stop codon, or -1 when the loop ends without one
RECURSIVE FirstStop(_, _)
FirstStop(seq, i) ==
    IF i >= Len(seq) THEN -1
    ELSE IF Slice(seq, i, i + 3) \in StopCodons THEN i
    ELSE FirstStop(seq, i + 3)

\* Mutant of RegionEnd: the stop codon is left out of the mapped region
RegionEndNoStop(i) == i - 1

\* The end of the region handed to the mapper: i + 2
RegionEnd(i) == i + 2

\* Mutant of CodingSeq: the stop codon is kept in the coding sequence
CodingSeqWithStop(merged_seq, start, i) == Slice(merged_seq, start, i + 3)

\* seq = merged_seq[start:i]
CodingSeq(merged_seq, start, i) == Slice(merged_seq, start, i)

\* The body of "found orf": the candidate for the start at `start` whose
\* first stop is at i
Candidate(merged_seq, start, i, intervals, reverse, py2) ==
    LET m == transcript_to_genome_iv(start, RegionEnd(i), intervals,
                                     reverse, py2)
    IN  [fault |-> m.fault,
         orfs |-> IF m.fault \/ m.ivs = <<>> THEN <<>>
                  ELSE << [ivs |-> m.ivs,
                           seq |-> CodingSeq(merged_seq, start, i),
                           leader |-> Slice(merged_seq, 0, start),
                           trailer |-> Slice(merged_seq, i, Len(merged_seq))] >>]

\* The while loop for one start codon sc, from cursor cur, with the
\* candidates found so far
RECURSIVE ScanCodon(_, _, _, _, _, _, _)
ScanCodon(merged_seq, sc, cur, intervals, reverse, py2, orfs) ==
    IF cur >= Len(merged_seq) THEN [fault |-> FALSE, orfs |-> orfs]
    ELSE LET start == Find(merged_seq, sc, cur)
         IN  IF start = -1 THEN [fault |-> FALSE, orfs |-> orfs]
             ELSE LET i == FirstStop(merged_seq, start)
                      c == IF i = -1 THEN [fault |-> FALSE, orfs |-> <<>>]
                           ELSE Candidate(merged_seq, start, i, intervals,
                                          reverse, py2)
                  IN  IF c.fault THEN [fault |-> TRUE, orfs |-> <<>>]
                      ELSE ScanCodon(merged_seq, sc, start + 1, intervals,
                                     reverse, py2, orfs \o c.orfs)

\* The merged interval list search_orfs works on
SearchMerged(intervals) == merge_intervals(intervals)

\* strand = intervals[0].strand; reverse = (strand == '-')
SearchReverse(merged) == merged[1].strand = "-"

\* merged_seq, reverse-complemented when the strand read is '-'
MergedSeq(genome, merged) ==
    LET forward == Join(fasta_query(genome, merged))
    IN  IF SearchReverse(merged) THEN reverse_complement(forward) ELSE forward

\* The while loop of every start codon, each started with no candidates:
\* element k is what the pass for StartCodons[k] appends (or its fault)
ScanEach(genome, merged, py2) ==
    [k \in 1..Len(StartCodons) |->
        ScanCodon(MergedSeq(genome, merged), StartCodons[k], 0, merged,
                  SearchReverse(merged), py2, <<>>)]

\* for sc in start_codons, in the order `order`, from its k-th codon on:
\* the passes append to orfs one after the other; a fault ends the function
RECURSIVE ScanAll(_, _, _, _)
ScanAll(passes, order, k, orfs) ==
    IF k > Len(order) THEN [fault |-> FALSE, orfs |-> orfs]
    ELSE IF passes[order[k]].fault THEN [fault |-> TRUE, orfs |-> <<>>]
    ELSE ScanAll(passes, order, k + 1, orfs \o passes[order[k]].orfs)

\* The whole function, on a list-or-None argument and the passes of its
\* start codons; the outcome is [fault, orfs]
search_orfs(intervals, passes, order) ==
    IF intervals.none \/ intervals.ivs = <<>>
    THEN [fault |-> FALSE, orfs |-> <<>>]
    ELSE ScanAll(passes, order, 1, <<>>)

\* The passes of search_orfs on a list-or-None argument
SearchPasses(genome, intervals, py2) ==
    IF intervals.none \/ intervals.ivs = <<>> THEN <<>>
    ELSE ScanEach(genome, SearchMerged(intervals.ivs), py2)

(***************************************************************************)
(* tracks_to_ivs (prepare_orfs.py)                                         *)
(***************************************************************************)
\* Mutant of TracksConsistent: only the strands are compared
TracksConsistentStrandOnly(tracks) ==
    Cardinality({tracks[k].strand : k \in 1..Len(tracks)}) = 1

\* len(chrom) != 1 or len(strand) != 1 fails: one chromosome, one strand
TracksConsistent(tracks) ==
    /\ Cardinality({tracks[k].chrom : k \in 1..Len(tracks)}) = 1
    /\ Cardinality({tracks[k].strand : k \in 1..Len(tracks)}) = 1

\* The message printed on the failing branch
InconsistentMsg == "fail to fetch seq: inconsistent chrom or strand"

\* The whole function: None (after the message), or the merged intervals
\* built with the one chromosome and the one strand
tracks_to_ivs(tracks) ==
    IF ~TracksConsistent(tracks) THEN NoneList
    ELSE SomeList(merge_intervals(
             [k \in 1..Len(tracks) |->
                 Interval(tracks[1].chrom, tracks[k].start, tracks[k].end,
                          tracks[1].strand)]))

(***************************************************************************)
(* prepare_orfs (prepare_orfs.py): the UTR partition and the two scans.    *)
(* The feature source (gtf.py) and the ORF class (orf.py) are not among    *)
(* the sources: a feature record is a record of the fields the driver      *)
(* reads, gtf.cds[gid] of a gene without CDS records is empty, and an ORF  *)
(* is the record of the arguments of its constructor.                      *)
(***************************************************************************)
\* A feature record of gene gid; the gene has one transcript, tid = gid
Track(gid, start, end, strand) ==
    [chrom |-> "chr1", start |-> start, end |-> end, strand |-> strand,
     gene_id |-> gid, transcript_id |-> gid]

\* first_cds: gene_cds[0], replaced by every record that starts before it
RECURSIVE FirstCds(_, _, _)
FirstCds(gene_cds, k, first_cds) ==
    IF k > Len(gene_cds) THEN first_cds
    ELSE FirstCds(gene_cds, k + 1,
                  IF gene_cds[k].start < first_cds.start THEN gene_cds[k]
                  ELSE first_cds)

\* last_cds: gene_cds[-1], replaced by every record that ends after it
RECURSIVE LastCds(_, _, _)
LastCds(gene_cds, k, last_cds) ==
    IF k > Len(gene_cds) THEN last_cds
    ELSE LastCds(gene_cds, k + 1,
                 IF gene_cds[k].end > last_cds.end THEN gene_cds[k]
                 ELSE last_cds)

\* gene_cds is empty ("if not gene_cds"); also the value before any gene
NoCds == [none |-> TRUE, first_start |-> 0, last_end |-> 0]

\* What lines 229-242 keep of gene_cds: whether it is empty, and the two
\* fields the partition reads, first_cds.start and last_cds.end
CdsBounds(gene_cds) ==
    IF gene_cds = <<>> THEN NoCds
    ELSE [none |-> FALSE,
          first_start |-> FirstCds(gene_cds, 1, gene_cds[1]).start,
          last_end |-> LastCds(gene_cds, 1, gene_cds[Len(gene_cds)]).end]

\* The message printed for a gene of gtf.utr without CDS records
NoCdsMsg == "fail to find CDS for UTR"

\* Mutant of ReportNoCds: nothing is printed
ReportNothing(log) == log

\* print('fail to find CDS for UTR')
ReportNoCds(log) == Append(log, NoCdsMsg)

\* utr5[tid].append(track) on a defaultdict(list) that keeps insertion order
DictAppend(d, tid, track) ==
    IF \E k \in 1..Len(d) : d[k].tid = tid
    THEN [k \in 1..Len(d) |->
             IF d[k].tid = tid
             THEN [d[k] EXCEPT !.tracks = Append(d[k].tracks, track)]
             ELSE d[k]]
    ELSE Append(d, [tid |-> tid, tracks |-> <<track>>])

\* Mutant of ClipEnd: the end is clipped to first_cds.start
ClipEndAtStart(track, first_start) ==
    IF track.end >= first_start THEN [track EXCEPT !.end = first_start]
    ELSE track

\* if track.end >= first_cds.start: track.end = first_cds.start - 1
ClipEnd(track, first_start) ==
    IF track.end >= first_start THEN [track EXCEPT !.end = first_start - 1]
    ELSE track

\* Mutant of ClipStart: the start is clipped to last_cds.end
ClipStartAtEnd(track, last_end) ==
    IF track.start <= last_end THEN [track EXCEPT !.start = last_end]
    ELSE track

\* if track.start <= last_cds.end: track.start = last_cds.end + 1
ClipStart(track, last_end) ==
    IF track.start <= last_end THEN [track EXCEPT !.start = last_end + 1]
    ELSE track

\* The body of the loop over the UTR records (lines 246-259): the two
\* dictionaries after the record `track`
Partition(track, cds, u5, u3) ==
    IF track.start < cds.first_start
    THEN IF track.strand = "+"
         THEN [utr5 |-> DictAppend(u5, track.transcript_id,
                                   ClipEnd(track, cds.first_start)),
               utr3 |-> u3]
         ELSE [utr5 |-> u5,
               utr3 |-> DictAppend(u3, track.transcript_id,
                                   ClipEnd(track, cds.first_start))]
    ELSE IF track.end > cds.last_end
    THEN IF track.strand = "+"
         THEN [utr5 |-> u5,
               utr3 |-> DictAppend(u3, track.transcript_id,
                                   ClipStart(track, cds.last_end))]
         ELSE [utr5 |-> DictAppend(u5, track.transcript_id,
                                   ClipStart(track, cds.last_end)),
               utr3 |-> u3]
    ELSE [utr5 |-> u5, utr3 |-> u3]

\* ORF(category, tid, ttype, gid, gname, gtype, chrom, strand, ivs, seq,
\* leader, trailer), with the metadata of tracks[0]
ORF(category, tracks, c) ==
    [category |-> category, tid |-> tracks[1].transcript_id,
     gid |-> tracks[1].gene_id, chrom |-> tracks[1].chrom,
     strand |-> tracks[1].strand, ivs |-> c.ivs, seq |-> c.seq,
     leader |-> c.leader, trailer |-> c.trailer]

\* search_orfs reads the sequence source once per group: the scans of the
\* groups of d from group k on, before the start codons are ordered
RECURSIVE GroupPasses(_, _, _, _)
GroupPasses(d, k, genome, py2) ==
    IF k > Len(d) THEN <<>>
    ELSE <<SearchPasses(genome, tracks_to_ivs(d[k].tracks), py2)>>
             \o GroupPasses(d, k + 1, genome, py2)

\* One pass of "for tid in utr5" (or utr3): the ORFs of one group, and the
\* message tracks_to_ivs printed, if any
ScanGroup(category, tracks, passes, order) ==
    LET ivs == tracks_to_ivs(tracks)
        r == search_orfs(ivs, passes, order)
    IN  [fault |-> r.fault,
         log |-> IF ivs.none THEN <<InconsistentMsg>> ELSE <<>>,
         orfs |-> [k \in 1..Len(r.orfs) |-> ORF(category, tracks, r.orfs[k])]]

\* The loop "for tid in utr5" (or utr3) from group k on; a fault ends it
RECURSIVE ScanGroups(_, _, _, _, _, _)
ScanGroups(category, d, k, passes, order, acc) ==
    IF k > Len(d) THEN acc
    ELSE LET g == ScanGroup(category, d[k].tracks, passes[k], order)
         IN  IF g.fault THEN [fault |-> TRUE, log |-> acc.log \o g.log,
                              orfs |-> acc.orfs]
             ELSE ScanGroups(category, d, k + 1, passes, order,
                             [fault |-> FALSE, log |-> acc.log \o g.log,
                              orfs |-> acc.orfs \o g.orfs])

\* The scan loop over the whole dictionary d
ScanDict(category, d, passes, order) ==
    ScanGroups(category, d, 1, passes, order,
               [fault |-> FALSE, log |-> <<>>, orfs |-> <<>>])

(***************************************************************************)
(* Values of the variables a specification does not use.                   *)
(***************************************************************************)
MergeIdle ==
    /\ m_in = <<>>
    /\ m_out = <<>>
    /\ m_out2 = <<>>

MapIdle ==
    /\ t_ivs = <<>>
    /\ t_start = 0
    /\ t_end = 0
    /\ t_reverse = FALSE
    /\ t_res = [fault |-> FALSE, ivs |-> <<>>]

SearchIdle ==
    /\ s_genome = <<>>
    /\ s_ivs = NoneList
    /\ s_res = [fault |-> FALSE, orfs |-> <<>>]

ScanIdle ==
    /\ p_group = <<>>
    /\ p_scanned = 0

PrepIdle ==
    /\ p_has_cds = <<>>
    /\ p_cds = NoCds
    /\ p_track = <<>>
    /\ p_read = 0
    /\ utr5 = <<>>
    /\ utr3 = <<>>
    /\ p_log = <<>>
    /\ uorfs = <<>>
    /\ dorfs = <<>>

(***************************************************************************)
(* Specification SpecSearch: search_orfs on three families of inputs:      *)
(* spliced lists and long single exons over genomes of the bases A and T   *)
(* (which spell the start codons ATA, ATT and the stop codon TAA), and     *)
(* short single exons over genomes of all four bases.                      *)
(***************************************************************************)
\* The genome holds the positions 0..GenomeMaxPos
GenomeMaxPos == Max(SearchMaxPos, Max(LongMaxPos, CodonMaxPos))

\* Genomes with the covered positions drawn from `bases` (the positions no
\* interval covers are never read: they hold A)
GenomesOn(ivs, bases) ==
    {[p \in 1..GenomeMaxPos + 1 |->
         IF p - 1 \in Covered(ivs) THEN f[p - 1] ELSE "A"] :
        f \in [Covered(ivs) -> bases]}

\* The three families: positions, list length, bases of the genome
SearchFamilies ==
    {[maxpos |-> SearchMaxPos, maxlen |-> SearchMaxIvs, bases |-> {"A", "T"}],
     [maxpos |-> LongMaxPos, maxlen |-> 1, bases |-> {"A", "T"}],
     [maxpos |-> CodonMaxPos, maxlen |-> 1, bases |-> Bases]}

InitSearch ==
    /\ pc = "search"
    /\ \E fam \in SearchFamilies, st \in Strands :
           \E l \in SortedDisjointLists(fam.maxpos, fam.maxlen, st) :
               /\ s_ivs = SomeList(l)
               /\ s_genome \in GenomesOn(l, fam.bases)
    /\ s_res = [fault |-> FALSE, orfs |-> <<>>]
    /\ MergeIdle
    /\ MapIdle
    /\ PrepIdle
    /\ ScanIdle

\* orfs = search_orfs(fasta, intervals)
Search ==
    /\ pc = "search"
    /\ \E py2 \in BOOLEAN :
           \E passes \in {SearchPasses(s_genome, s_ivs, py2)} :
               \E order \in CodonOrders :
                   s_res' = search_orfs(s_ivs, passes, order)
    /\ pc' = "searched"
    /\ UNCHANGED <<scanVars, s_genome, s_ivs, mergeVars, mapVars, prepVars>>

NextSearch == Search

SpecSearch == InitSearch /\ [][NextSearch]_vars

(***************************************************************************)
(* Specification SpecPrepare: prepare_orfs.  The records of a gene are     *)
(* chosen when the loops read them: its CDS records at lines 229-231, its  *)
(* UTR records one by one at line 245.  The genome is ATATAA repeated.     *)
(***************************************************************************)
\* The feature records with start <= end within 0..PrepMaxPos
PrepSpans == UNION {{<<a, b>> : b \in a..PrepMaxPos} : a \in 0..PrepMaxPos}

\* Every possible gene_cds of a gene, the empty one included
CdsLists ==
    {[k \in 1..Len(l) |-> Track(0, l[k][1], l[k][2], "+")] :
        l \in SeqsUpTo(PrepSpans, PrepMaxCds)}

\* What the partition keeps of every possible gene_cds
CdsInputs == {CdsBounds(gene_cds) : gene_cds \in CdsLists}

\* The genome: ATATAA repeated from position 0
PrepGenome ==
    [p \in 1..PrepMaxPos + 1 |->
        <<"A", "T", "A", "T", "A", "A">>[((p - 1) % 6) + 1]]

InitPrepare ==
    /\ pc = "cds"
    /\ s_genome = PrepGenome
    /\ s_ivs = NoneList
    /\ s_res = [fault |-> FALSE, orfs |-> <<>>]
    /\ PrepIdle
    /\ ScanIdle
    /\ MergeIdle
    /\ MapIdle

\* Lines 213-222: the CDS pass (cds_orfs is built by ORF.from_tracks and
\* read by no later step of the partition or the scans)
CdsPass ==
    /\ pc = "cds"
    /\ pc' = "utr_gene"
    /\ UNCHANGED <<scanVars, mergeVars, mapVars, searchVars, prepVars>>

\* Lines 227-242: the next gene of gtf.utr; without CDS records the
\* condition is printed and the loop continues with the next gene
UtrGene ==
    /\ pc = "utr_gene"
    /\ Len(p_has_cds) < PrepGenes
    /\ \E cds \in CdsInputs :
           /\ ~cds.none => p_read < PrepMaxUtr
           /\ p_has_cds' = Append(p_has_cds, ~cds.none)
           /\ p_cds' = cds
           /\ IF cds.none
              THEN /\ p_log' = ReportNoCds(p_log)
                   /\ pc' = "utr_gene"
              ELSE /\ p_log' = p_log
                   /\ pc' = "utr_track"
    /\ UNCHANGED <<scanVars, mergeVars, mapVars, searchVars, p_track, p_read,
                   utr5, utr3, uorfs, dorfs>>

\* Lines 245-259: the next UTR record of the gene
UtrTrack ==
    /\ pc = "utr_track"
    /\ p_read < PrepMaxUtr
    /\ \E span \in PrepSpans, strand \in Strands :
           LET track == Track(Len(p_has_cds), span[1], span[2], strand)
               r == Partition(track, p_cds, utr5, utr3)
           IN  /\ p_track' = <<track>>
               /\ utr5' = r.utr5
               /\ utr3' = r.utr3
    /\ p_read' = p_read + 1
    /\ UNCHANGED <<scanVars, pc, mergeVars, mapVars, searchVars, p_has_cds, p_cds,
                   p_log, uorfs, dorfs>>

\* The gene has no further UTR record
UtrGeneDone ==
    /\ pc = "utr_track"
    /\ p_track # <<>>
    /\ pc' = "utr_gene"
    /\ p_cds' = NoCds
    /\ p_track' = <<>>
    /\ UNCHANGED <<scanVars, mergeVars, mapVars, searchVars, p_has_cds, p_read,
                   utr5, utr3, p_log, uorfs, dorfs>>

\* Lines 261-277: gtf.utr is exhausted; the scan of the 5'-UTR groups
ScanUtr5 ==
    /\ pc = "utr_gene"
    /\ \E py2 \in BOOLEAN :
           \E passes \in {GroupPasses(utr5, 1, s_genome, py2)} :
               \E order \in CodonOrders :
                   \E r \in {ScanDict("uORF", utr5, passes, order)} :
                       /\ uorfs' = r.orfs
                       /\ p_log' = p_log \o r.log
                       /\ pc' = IF r.fault THEN "fault" ELSE "dorfs"
    /\ UNCHANGED <<scanVars, mergeVars, mapVars, searchVars, p_has_cds, p_cds, p_track,
                   p_read, utr5, utr3, dorfs>>

\* Lines 279-314: the scan of the 3'-UTR groups, then the file is written
\* and the three lists are returned
ScanUtr3 ==
    /\ pc = "dorfs"
    /\ \E py2 \in BOOLEAN :
           \E passes \in {GroupPasses(utr3, 1, s_genome, py2)} :
               \E order \in CodonOrders :
                   \E r \in {ScanDict("dORF", utr3, passes, order)} :
                       /\ dorfs' = r.orfs
                       /\ p_log' = p_log \o r.log
                       /\ pc' = IF r.fault THEN "fault" ELSE "done"
    /\ UNCHANGED <<scanVars, mergeVars, mapVars, searchVars, p_has_cds, p_cds, p_track,
                   p_read, utr5, utr3, uorfs>>

NextPrepare ==
    CdsPass \/ UtrGene \/ UtrTrack \/ UtrGeneDone \/ ScanUtr5 \/ ScanUtr3

SpecPrepare == InitPrepare /\ [][NextPrepare]_vars

(***************************************************************************)
(* Specification SpecScan: the scan loop of prepare_orfs over the groups   *)
(* of utr5 (lines 261-277; the loop over utr3 is the same code).  A group  *)
(* is chosen when the loop reads it (line 263); its records may lie on two *)
(* chromosomes and on both strands.  The genome is ATATAA repeated.        *)
(***************************************************************************)
\* Chromosomes of the records of a group
ScanChroms == {"chr1", "chr2"}

\* The records of a group lie on the first codon, or on the rest of the
\* region 0..PrepMaxPos
ScanSpans == {<<0, 2>>, <<3, PrepMaxPos>>}

\* The records a group of transcript tid may hold
ScanTracks(tid) ==
    {[Track(tid, span[1], span[2], strand) EXCEPT !.chrom = chrom] :
        span \in ScanSpans, strand \in Strands, chrom \in ScanChroms}

InitScan ==
    /\ pc = "scan_next"
    /\ s_genome = PrepGenome
    /\ s_ivs = NoneList
    /\ s_res = [fault |-> FALSE, orfs |-> <<>>]
    /\ PrepIdle
    /\ ScanIdle
    /\ MergeIdle
    /\ MapIdle

\* Lines 262-263: for tid in utr5; tracks = utr5[tid]
ReadGroup ==
    /\ pc = "scan_next"
    /\ p_scanned < PrepGenes
    /\ p_group' \in SeqsUpTo(ScanTracks(p_scanned + 1), ScanMaxTracks) \ {<<>>}
    /\ pc' = "scan_group"
    /\ UNCHANGED <<p_scanned, mergeVars, mapVars, searchVars, prepVars>>

\* Lines 264-277: the body of the loop for the group read; s_ivs keeps ivs,
\* what tracks_to_ivs returned and search_orfs was handed (lines 272-273)
ScanStep ==
    /\ pc = "scan_group"
    /\ \E py2 \in BOOLEAN :
           \E passes \in {SearchPasses(s_genome, tracks_to_ivs(p_group), py2)} :
               \E order \in CodonOrders :
                   \E g \in {ScanGroup("uORF", p_group, passes, order)} :
                       /\ uorfs' = uorfs \o g.orfs
                       /\ p_log' = p_log \o g.log
                       /\ pc' = IF g.fault THEN "fault" ELSE "scan_next"
    /\ s_ivs' = tracks_to_ivs(p_group)
    /\ p_group' = <<>>
    /\ p_scanned' = p_scanned + 1
    /\ UNCHANGED <<mergeVars, mapVars, s_genome, s_res, p_has_cds, p_cds,
                   p_track, p_read, utr5, utr3, dorfs>>

\* utr5 has no further group
ScanDone ==
    /\ pc = "scan_next"
    /\ pc' = "scan_done"
    /\ UNCHANGED <<scanVars, mergeVars, mapVars, searchVars, prepVars>>

NextScan == ReadGroup \/ ScanStep \/ ScanDone

SpecScan == InitScan /\ [][NextScan]_vars

(***************************************************************************)
(* Specification SpecMap: transcript_to_genome_iv on every bounded sorted, *)
(* pairwise-disjoint interval list, with start and end from one position   *)
(* before to two positions after the transcript space.                     *)
(***************************************************************************)
InitMap ==
    /\ pc = "map"
    /\ t_ivs \in UNION {SortedDisjointLists(MapMaxPos, MapMaxIvs, st) :
                        st \in Strands}
    /\ t_start \in -1..TotalLen(t_ivs) + 1
    /\ t_end \in -1..TotalLen(t_ivs) + 1
    /\ t_reverse \in BOOLEAN
    /\ t_res = [fault |-> FALSE, ivs |-> <<>>]
    /\ MergeIdle
    /\ SearchIdle
    /\ PrepIdle
    /\ ScanIdle

\* ivs = transcript_to_genome_iv(start, end, intervals, reverse)
Map ==
    /\ pc = "map"
    /\ \E py2 \in BOOLEAN :
           t_res' = transcript_to_genome_iv(t_start, t_end, t_ivs, t_reverse, py2)
    /\ pc' = "mapped"
    /\ UNCHANGED <<scanVars, t_ivs, t_start, t_end, t_reverse, mergeVars, searchVars, prepVars>>

NextMap == Map

SpecMap == InitMap /\ [][NextMap]_vars

(***************************************************************************)
(* Specification SpecMerge: merge_intervals on every bounded input list,   *)
(* then on its own result.                                                 *)
(***************************************************************************)
MergeInputs ==
    UNION {SeqsUpTo(IntervalsOn(MergeMaxPos, st), MergeMaxLen) : st \in Strands}

InitMerge ==
    /\ pc = "merge"
    /\ m_in \in MergeInputs
    /\ m_out = <<>>
    /\ m_out2 = <<>>
    /\ MapIdle
    /\ SearchIdle
    /\ PrepIdle
    /\ ScanIdle

\* merged = merge_intervals(intervals)
Merge ==
    /\ pc = "merge"
    /\ m_out' = merge_intervals(m_in)
    /\ pc' = "merged"
    /\ UNCHANGED <<scanVars, m_in, m_out2, mapVars, searchVars, prepVars>>

\* merge_intervals(merged)
MergeAgain ==
    /\ pc = "merged"
    /\ m_out2' = merge_intervals(m_out)
    /\ pc' = "remerged"
    /\ UNCHANGED <<scanVars, m_in, m_out, mapVars, searchVars, prepVars>>

NextMerge == Merge \/ MergeAgain

SpecMerge == InitMerge /\ [][NextMerge]_vars

(***************************************************************************)
(* Properties of merge_intervals.                                          *)
(***************************************************************************)
\* Sorted ascending by start
SortedByStart(ivs) ==
    \A k \in 1..Len(ivs) - 1 : ivs[k].start <= ivs[k + 1].start

\* No two intervals of the list share a position
PairwiseDisjoint(ivs) ==
    \A j, k \in 1..Len(ivs) :
        j # k => (ivs[j].start..ivs[j].end) \cap (ivs[k].start..ivs[k].end) = {}

\* C2: for every input list (empty, single, unsorted, overlapping) the
\* result of merge_intervals is sorted ascending by start, pairwise
\* non-overlapping, and covers exactly the positions the input covers.
C2_MergeSortedDisjointCover ==
    pc # "merge" =>
        /\ SortedByStart(m_out)
        /\ PairwiseDisjoint(m_out)
        /\ Covered(m_out) = Covered(m_in)

\* C2 witness: an unsorted input with an overlap was merged into two intervals
C2_Witness ==
    /\ pc = "merged"
    /\ Len(m_in) = 3
    /\ \E j \in 1..2 : m_in[j].start > m_in[j + 1].start
    /\ ~PairwiseDisjoint(m_in)
    /\ Len(m_out) = 2

\* C3 as stated: no two consecutive output intervals are adjacent
C3_NoAdjacentOutputs ==
    pc # "merge" =>
        \A k \in 1..Len(m_out) - 1 : m_out[k + 1].start # m_out[k].end + 1

\* C3, amended: merge_intervals fuses inputs that share a position, and
\* only those: consecutive outputs never overlap (b.start > a.end), two
\* inputs that share a position lie inside one output interval, and two
\* adjacent inputs x, y (y.start = x.end + 1) whose junction no input spans
\* stay apart, as consecutive outputs ending at x.end and starting at
\* y.start.
C3_FusesOverlapOnly ==
    pc # "merge" =>
        /\ \A k \in 1..Len(m_out) - 1 : m_out[k + 1].start > m_out[k].end
        /\ \A i, j \in 1..Len(m_in) :
             (m_in[i].start..m_in[i].end) \cap (m_in[j].start..m_in[j].end) # {}
             => \E k \in 1..Len(m_out) :
                    /\ m_out[k].start <= Min(m_in[i].start, m_in[j].start)
                    /\ Max(m_in[i].end, m_in[j].end) <= m_out[k].end
        /\ \A i, j \in 1..Len(m_in) :
             ( /\ m_in[j].start = m_in[i].end + 1
               /\ ~\E z \in 1..Len(m_in) :
                      m_in[z].start <= m_in[i].end /\ m_in[j].start <= m_in[z].end )
             => \E k \in 1..Len(m_out) - 1 :
                    /\ m_out[k].end = m_in[i].end
                    /\ m_out[k + 1].start = m_in[j].start

\* C3 witness: two adjacent inputs were merged and came out as two intervals
C3_Witness ==
    /\ pc = "merged"
    /\ Len(m_in) = 2
    /\ m_in[2].start = m_in[1].end + 1
    /\ Len(m_out) = 2
    /\ m_out[2].start = m_out[1].end + 1

\* Starts and ends of a list, in order
Bounds(ivs) == [k \in 1..Len(ivs) |-> <<ivs[k].start, ivs[k].end>>]

\* C4: merge_intervals is idempotent: merging its result gives the same
\* starts and ends in the same order.
C4_MergeIdempotent ==
    pc = "remerged" => Bounds(m_out2) = Bounds(m_out)

\* C4 witness: a list that merging changed was merged a second time
C4_Witness ==
    /\ pc = "remerged"
    /\ Len(m_in) = 3
    /\ Len(m_out) = 2
    /\ Bounds(m_out) # Bounds(SubSeq(m_in, 1, 2))
    /\ Len(m_out2) = 2

(***************************************************************************)
(* Properties of transcript_to_genome_iv.                                  *)
(***************************************************************************)
\* Genomic positions of one interval, ascending
Positions(iv) == [k \in 1..IvLen(iv) |-> iv.start + k - 1]

\* Genomic positions of a list of intervals, concatenated in list order:
\* element k + 1 is the genomic position of forward transcript offset k
RECURSIVE Flat(_)
Flat(ivs) == IF ivs = <<>> THEN <<>> ELSE Positions(ivs[1]) \o Flat(Tail(ivs))

\* 0 <= start <= end < total_len
MapInRange ==
    /\ 0 <= t_start
    /\ t_start <= t_end
    /\ t_end < TotalLen(t_ivs)

\* start or end lies outside the transcript space 0..total_len - 1
MapOutside ==
    \/ t_start \notin 0..TotalLen(t_ivs) - 1
    \/ t_end \notin 0..TotalLen(t_ivs) - 1

\* C1: round trip.  For a sorted, pairwise-disjoint list and a region
\* 0 <= start <= end < total_len, with either value of reverse, the
\* positions of the returned intervals, in the returned order (read
\* backwards when reverse is set), are the genomic positions of transcript
\* offsets start..end; the returned span is end - start + 1 and every
\* returned interval lies inside one input interval.
C1_RoundTrip ==
    (pc = "mapped" /\ MapInRange) =>
        /\ ~t_res.fault
        /\ LET F == Flat(t_ivs)
               R == Flat(t_res.ivs)
               n == TotalLen(t_ivs)
           IN  /\ Len(R) = t_end - t_start + 1
               /\ TotalLen(t_res.ivs) = t_end - t_start + 1
               /\ \A j \in 0..t_end - t_start :
                      IF t_reverse
                      THEN R[Len(R) - j] = F[n - (t_start + j)]
                      ELSE R[j + 1] = F[t_start + j + 1]
        /\ \A k \in 1..Len(t_res.ivs) :
               /\ t_res.ivs[k].start <= t_res.ivs[k].end
               /\ \E m \in 1..Len(t_ivs) :
                      /\ t_ivs[m].start <= t_res.ivs[k].start
                      /\ t_res.ivs[k].end <= t_ivs[m].end

\* C1 witness: a reverse-strand region that starts after offset 0 was
\* mapped across a junction onto two intervals
C1_Witness ==
    /\ pc = "mapped"
    /\ MapInRange
    /\ t_reverse
    /\ t_start > 0
    /\ Len(t_ivs) = 3
    /\ Len(t_res.ivs) = 2

\* C8 as stated: no fault; an empty list whenever start or end lies outside
\* the transcript space; a non-empty list whenever 0 <= start <= end <
\* total_len.
C8_EmptyOutsideNonEmptyInside ==
    pc = "mapped" =>
        /\ ~t_res.fault
        /\ MapOutside => t_res.ivs = <<>>
        /\ MapInRange => t_res.ivs # <<>>

(***************************************************************************)
(* Properties of search_orfs.                                              *)
(***************************************************************************)
\* The merged interval list of the searched input (section 4.1)
ScanExons == merge_intervals(s_ivs.ivs)

\* The transcript sequence: the bases of the positions of the merged list,
\* in list order
Transcript ==
    LET F == Flat(ScanExons) IN [k \in 1..Len(F) |-> s_genome[F[k] + 1]]

\* The stop codons, as the claims list them
ClaimStops == {<<"T", "A", "G">>, <<"T", "A", "A">>, <<"T", "G", "A">>}

\* A start codon occurs at offset p of the sequence T
StartAt(T, p) ==
    /\ p + 3 <= Len(T)
    /\ SubSeq(T, p + 1, p + 3) \in {StartCodons[k] : k \in 1..Len(StartCodons)}

\* The offsets q = p + 3k, k >= 1, q + 3 <= length, of T that hold a stop
\* codon
StopsAfter(T, p) ==
    {q \in p + 3..Len(T) - 3 :
        (q - p) % 3 = 0 /\ SubSeq(T, q + 1, q + 3) \in ClaimStops}

\* The smallest element of a non-empty set of integers
Least(S) == CHOOSE x \in S : \A y \in S : x <= y

\* The candidates emitted for the start at offset p (the leader of a
\* candidate is the transcript before its start)
CandidatesAt(p) == {k \in 1..Len(s_res.orfs) : Len(s_res.orfs[k].leader) = p}

\* C5 as stated: the genomic intervals of every candidate are non-empty,
\* sorted ascending and span as many positions as the coding sequence has
\* bases.
C5_SpanEqualsCodingLength ==
    pc = "searched" =>
        \A k \in 1..Len(s_res.orfs) :
            /\ s_res.orfs[k].ivs # <<>>
            /\ SortedByStart(s_res.orfs[k].ivs)
            /\ TotalLen(s_res.orfs[k].ivs) = Len(s_res.orfs[k].seq)

\* C5, amended: the genomic intervals of every candidate are non-empty,
\* sorted ascending, and span the coding sequence and the stop codon:
\* their total span is the length of coding_sequence plus 3.
C5_SpanIsCodingPlusStop ==
    pc = "searched" =>
        \A k \in 1..Len(s_res.orfs) :
            /\ s_res.orfs[k].ivs # <<>>
            /\ SortedByStart(s_res.orfs[k].ivs)
            /\ TotalLen(s_res.orfs[k].ivs) = Len(s_res.orfs[k].seq) + 3

\* C5 witness: a candidate whose intervals lie on two exons was emitted
C5_Witness ==
    /\ pc = "searched"
    /\ \E k \in 1..Len(s_res.orfs) :
           /\ Len(s_res.orfs[k].ivs) = 2
           /\ s_res.orfs[k].ivs[1].end + 1 < s_res.orfs[k].ivs[2].start

\* C6: a candidate is emitted for the start codon at offset p exactly when
\* some q = p + 3k (k >= 1, q + 3 <= length) holds a stop codon; then
\* exactly one candidate is emitted for it, with the smallest such q
\* (its coding sequence has q - p bases), also when starts share a stop or
\* are nested; offsets that hold no start codon get no candidate.
C6_OneCandidatePerStartWithStop ==
    pc = "searched" =>
        /\ ~s_res.fault
        /\ \A T \in {Transcript} :
             /\ \A k \in 1..Len(s_res.orfs) :
                    Len(s_res.orfs[k].leader) \in 0..Len(T) - 1
             /\ \A p \in 0..Len(T) - 1 :
                    IF StartAt(T, p) /\ StopsAfter(T, p) # {}
                    THEN /\ Cardinality(CandidatesAt(p)) = 1
                         /\ \A k \in CandidatesAt(p) :
                                Len(s_res.orfs[k].seq) = Least(StopsAfter(T, p)) - p
                    ELSE CandidatesAt(p) = {}

\* C6 witness: two starts in one frame share a stop and each got its
\* candidate, and a start without an in-frame stop got none
C6_Witness ==
    /\ pc = "searched"
    /\ \E T \in {Transcript} :
         /\ \E p \in 0..Len(T) - 1 :
                /\ StartAt(T, p) /\ StartAt(T, p + 3)
                /\ StopsAfter(T, p) # {}
                /\ Least(StopsAfter(T, p)) = Least(StopsAfter(T, p + 3))
                /\ CandidatesAt(p) # {} /\ CandidatesAt(p + 3) # {}
         /\ \E p \in 0..Len(T) - 1 :
                StartAt(T, p) /\ StopsAfter(T, p) = {} /\ CandidatesAt(p) = {}

\* C7: for the candidate of the start at p with first in-frame stop at q,
\* coding_sequence is the transcript [p, q) (a positive multiple of 3 long,
\* no in-frame stop inside), upstream_flank the transcript before p,
\* downstream_flank the transcript from q on (it begins with the stop
\* codon), the three together the whole transcript, and genomic_intervals
\* the mapper's result for [p, q + 2] on the merged list with the reverse
\* flag read from the strand of its first interval: the intervals of the
\* positions of offsets p..q + 2.
C7_CandidateFields ==
    pc = "searched" =>
        \A T \in {Transcript}, E \in {ScanExons} :
            \A k \in 1..Len(s_res.orfs) :
                LET c == s_res.orfs[k]
                    p == Len(c.leader)
                    q == p + Len(c.seq)
                    m == transcript_to_genome_iv(p, q + 2, E,
                                                 E[1].strand = "-", FALSE)
                IN  /\ c.leader \o c.seq \o c.trailer = T
                    /\ c.leader = SubSeq(T, 1, p)
                    /\ c.seq = SubSeq(T, p + 1, q)
                    /\ c.trailer = SubSeq(T, q + 1, Len(T))
                    /\ Len(c.seq) > 0 /\ Len(c.seq) % 3 = 0
                    /\ StartAt(T, p)
                    /\ StopsAfter(T, p) # {} /\ q = Least(StopsAfter(T, p))
                    /\ SubSeq(c.trailer, 1, 3) \in ClaimStops
                    /\ ~m.fault /\ c.ivs = m.ivs
                    /\ Flat(c.ivs) = SubSeq(Flat(E), p + 1, q + 3)

\* C7 witness: a candidate with a non-empty leader whose intervals lie on
\* two exons was emitted
C7_Witness ==
    /\ pc = "searched"
    /\ \E k \in 1..Len(s_res.orfs) :
           /\ Len(s_res.orfs[k].leader) > 0
           /\ Len(s_res.orfs[k].seq) = 3
           /\ Len(s_res.orfs[k].ivs) = 2


(***************************************************************************)
(* Properties of prepare_orfs                                              *)
(***************************************************************************)
\* The records of transcript tid in the dictionary d (none: no such key)
TracksOf(d, tid) ==
    IF \E k \in 1..Len(d) : d[k].tid = tid
    THEN d[CHOOSE k \in 1..Len(d) : d[k].tid = tid].tracks
    ELSE <<>>

\* Every record accumulated in the dictionary d
AllTracks(d) == UNION {{d[k].tracks[j] : j \in 1..Len(d[k].tracks)} : k \in 1..Len(d)}

\* The genes of gtf.utr read so far that have no CDS record
NoCdsGenes == {g \in 1..Len(p_has_cds) : ~p_has_cds[g]}

\* The number of ORFs of transcript tid in a list of ORFs
OrfsOf(orfs, tid) == Cardinality({k \in 1..Len(orfs) : orfs[k].tid = tid})

\* The number of candidates search_orfs finds in the records of one group
Found(tracks) ==
    LET ivs == tracks_to_ivs(tracks)
    IN  Len(search_orfs(ivs, SearchPasses(s_genome, ivs, FALSE),
                        [k \in 1..Len(StartCodons) |-> k]).orfs)

\* C9: a gene of gtf.utr without CDS records puts no record into utr5 or
\* utr3 and no ORF into uorfs or dorfs; the condition is printed once per
\* such gene and the run does not fault; the record of another gene that
\* lies before or after its CDS records is still accumulated, and every
\* accumulated group is still scanned.
C9_NoCdsGeneSkipped ==
    /\ pc # "fault"
    /\ Cardinality({k \in 1..Len(p_log) : p_log[k] = NoCdsMsg})
           = Cardinality(NoCdsGenes)
    /\ \A g \in NoCdsGenes :
           /\ \A t \in AllTracks(utr5) \cup AllTracks(utr3) : t.gene_id # g
           /\ \A k \in 1..Len(uorfs) : uorfs[k].gid # g
           /\ \A k \in 1..Len(dorfs) : dorfs[k].gid # g
    /\ (pc = "utr_track" /\ p_track # <<>>) =>
           LET t == p_track[1]
           IN  (t.start < p_cds.first_start \/ t.end > p_cds.last_end) =>
                   \E c \in AllTracks(utr5) \cup AllTracks(utr3) :
                       /\ c.gene_id = t.gene_id
                       /\ c.start = t.start \/ c.end = t.end
    /\ pc \in {"dorfs", "done"} =>
           \A k \in 1..Len(utr5) :
               OrfsOf(uorfs, utr5[k].tid) = Found(utr5[k].tracks)
    /\ pc = "done" =>
           \A k \in 1..Len(utr3) :
               OrfsOf(dorfs, utr3[k].tid) = Found(utr3[k].tracks)

\* A gene without CDS records was reported, and the gene read after it
\* gave a uORF
C9_Witness ==
    /\ pc = "done"
    /\ p_has_cds = <<FALSE, TRUE>>
    /\ p_log = <<NoCdsMsg>>
    /\ Len(uorfs) > 0
    /\ \A k \in 1..Len(uorfs) : uorfs[k].gid = 2

\* first_cds.start is the least start and last_cds.end the greatest end of
\* the CDS records of the gene
CdsBoundsAreMinMax ==
    \A gene_cds \in CdsLists \ {<<>>} :
        LET b == CdsBounds(gene_cds)
            K == 1..Len(gene_cds)
        IN  /\ ~b.none
            /\ \E k \in K : gene_cds[k].start = b.first_start
            /\ \A k \in K : gene_cds[k].start >= b.first_start
            /\ \E k \in K : gene_cds[k].end = b.last_end
            /\ \A k \in K : gene_cds[k].end <= b.last_end

\* The step appends the record c to the group tid of the dictionary d and
\* leaves the other groups alone
AppendedTo(d, d2, tid, c) ==
    /\ TracksOf(d2, tid) = Append(TracksOf(d, tid), c)
    /\ \A other \in 1..PrepGenes :
           other # tid => TracksOf(d2, other) = TracksOf(d, other)

\* What a step that reads the UTR record t does to the two dictionaries
PartitionedAsStated(t, first_start, last_end) ==
    IF t.start < first_start
    THEN LET c == IF t.end >= first_start
                  THEN [t EXCEPT !.end = first_start - 1] ELSE t
         IN  IF t.strand = "+"
             THEN AppendedTo(utr5, utr5', t.transcript_id, c) /\ utr3' = utr3
             ELSE AppendedTo(utr3, utr3', t.transcript_id, c) /\ utr5' = utr5
    ELSE IF t.end > last_end
    THEN LET c == IF t.start <= last_end
                  THEN [t EXCEPT !.start = last_end + 1] ELSE t
         IN  IF t.strand = "+"
             THEN AppendedTo(utr3, utr3', t.transcript_id, c) /\ utr5' = utr5
             ELSE AppendedTo(utr5, utr5', t.transcript_id, c) /\ utr3' = utr3
    ELSE utr5' = utr5 /\ utr3' = utr3

\* C10: first_cds.start and last_cds.end are the least CDS start and the
\* greatest CDS end of the gene; the step that reads a UTR record with
\* start < first_cds.start clips its end to first_cds.start - 1 when
\* end >= first_cds.start and appends it to utr5 on '+' and to utr3
\* otherwise; failing that, a record with end > last_cds.end has its start
\* clipped to last_cds.end + 1 when start <= last_cds.end and is appended to
\* utr3 on '+' and to utr5 otherwise; any other record changes neither
\* dictionary.  A record is appended to at most one of the two.
C10_UtrPartition ==
    /\ []CdsBoundsAreMinMax
    /\ [][(pc = "utr_track" /\ p_read' = p_read + 1) =>
              PartitionedAsStated(p_track'[1], p_cds.first_start,
                                  p_cds.last_end)]_vars

\* A '+' record that starts before the first CDS record and reaches into it
\* was clipped and sits in utr5
C10_Witness ==
    /\ pc = "utr_track"
    /\ p_track # <<>>
    /\ p_track[1].strand = "+"
    /\ p_track[1].start < p_cds.first_start
    /\ p_track[1].end >= p_cds.first_start
    /\ TracksOf(utr5, p_track[1].transcript_id)
           = <<[p_track[1] EXCEPT !.end = p_cds.first_start - 1]>>
    /\ utr3 = <<>>


(***************************************************************************)
(* Properties of the scan of one group                                     *)
(***************************************************************************)
\* The records share one chromosome and one strand
OneChromOneStrand(tracks) ==
    \A j, k \in 1..Len(tracks) :
        /\ tracks[j].chrom = tracks[k].chrom
        /\ tracks[j].strand = tracks[k].strand

\* C11: for a group whose records do not share one chromosome and one
\* strand, tracks_to_ivs returns None, which no list of intervals equals,
\* the empty list included, and prints the inconsistency; the step of the
\* scan loop for that group adds no ORF, does not fault, and leaves the loop
\* at its next group.  No run of the loop faults.
C11_InconsistentGroupSkipped ==
    /\ [](pc # "fault")
    /\ [][(pc = "scan_group" /\ ~OneChromOneStrand(p_group)) =>
              /\ tracks_to_ivs(p_group) = NoneList
              /\ NoneList # SomeList(<<>>)
              /\ \A k \in 1..Len(p_group) :
                     NoneList # SomeList(<<Interval(p_group[k].chrom,
                         p_group[k].start, p_group[k].end, p_group[k].strand)>>)
              /\ uorfs' = uorfs
              /\ p_log' = Append(p_log, InconsistentMsg)
              /\ pc' = "scan_next"
              /\ p_scanned' = p_scanned + 1]_vars

\* The first group was inconsistent and reported; the second group was
\* scanned after it and gave a uORF
C11_Witness ==
    /\ pc = "scan_next"
    /\ p_scanned = 2
    /\ p_log = <<InconsistentMsg>>
    /\ Len(uorfs) > 0
    /\ \A k \in 1..Len(uorfs) : uorfs[k].tid = 2


\* C12: for a non-empty group of records on one chromosome and one strand,
\* every interval tracks_to_ivs returns carries that chromosome and that
\* strand, and the strand search_orfs reads from the first merged interval
\* makes it reverse exactly when the records lie on '-'.
C12_MergedCarryChromStrand ==
    [][(pc = "scan_group" /\ OneChromOneStrand(p_group)) =>
           /\ ~s_ivs'.none
           /\ \A k \in 1..Len(s_ivs'.ivs) :
                  /\ s_ivs'.ivs[k].chrom = p_group[1].chrom
                  /\ s_ivs'.ivs[k].strand = p_group[1].strand
           /\ SearchReverse(SearchMerged(s_ivs'.ivs))
                  <=> p_group[1].strand = "-"]_vars


(***************************************************************************)
(* Properties of the accumulated UTR records                               *)
(***************************************************************************)
\* Every record accumulated so far in utr5 or utr3
Accumulated == AllTracks(utr5) \cup AllTracks(utr3)

\* The records read have start <= end; every accumulated record still has
\* start <= end, and while its gene is the one being partitioned it lies
\* entirely before first_cds.start or entirely after last_cds.end
AccumulatedOutsideCds ==
    /\ \A t \in Accumulated : t.start <= t.end
    /\ pc = "utr_track" =>
           /\ p_cds.first_start <= p_cds.last_end
           /\ \A k \in 1..Len(p_track) : p_track[k].start <= p_track[k].end
           /\ \A t \in Accumulated :
                  t.gene_id = Len(p_has_cds) =>
                      \/ t.end < p_cds.first_start
                      \/ t.start > p_cds.last_end

\* C13: in every state of every run of the UTR partition, given UTR and CDS
\* records with start <= end, every record accumulated in utr5 or utr3 has
\* start <= end after clipping and lies entirely outside the CDS span
\* [first_cds.start, last_cds.end] of its gene.
C13_AccumulatedOutsideCds == []AccumulatedOutsideCds

\* A '-' record that starts inside the CDS span and ends after it was
\* clipped at its start and sits in utr5
C13_Witness ==
    /\ pc = "utr_track"
    /\ p_track # <<>>
    /\ p_track[1].strand = "-"
    /\ p_track[1].start >= p_cds.first_start
    /\ p_track[1].start <= p_cds.last_end
    /\ p_track[1].end > p_cds.last_end
    /\ TracksOf(utr5, p_track[1].transcript_id)
           = <<[p_track[1] EXCEPT !.start = p_cds.last_end + 1]>>
    /\ utr3 = <<>>

=============================================================================
